---- MODULE Spec2Model ----
(***************************************************************************)
(* A model of the upvote worker (src/cloudflare/worker.py): the cookie     *)
(* codec, the record codec, the counter store, the request handlers and    *)
(* the popularity cache builder.                                           *)
(*                                                                         *)
(* Text is a sequence of characters; a character is a one-token string     *)
(* ("/", "a", "|", "0" .. "9").  Two characters outside ASCII are named    *)
(* by a token: "sup2" is U+00B2 (SUPERSCRIPT TWO: str.isdigit() is True    *)
(* for it and int() raises ValueError) and "eacute" is U+00E9.             *)
(***************************************************************************)
EXTENDS Integers, Sequences, FiniteSets, TLC

VARIABLES
    kv_post,      \* the store under post:<slug>: slug text -> raw value
    kv_secret,    \* the store under cookie_secret ("" when absent)
    kv_index,     \* the store under popular_slug_index:v1 (a list of slug texts)
    kv_origin,    \* the store under popular_site_origin:v1 ("" when absent)
    kv_cache,     \* the store under popular_cache:v1 (NoDoc when absent)
    env,          \* the worker's environment: configured secret, list() support, cache maximum
    now,          \* int(time.time())
    jar,          \* the vote cookies issued so far (what browsers hold)
    pc,           \* position of each in-flight vote request (concurrent votes)
    loc,          \* the local record of each in-flight vote request
    hist,         \* history: the store at the start and the new votes answered since
    last          \* what the last operation returned and did

vars == <<kv_post, kv_secret, kv_index, kv_origin, kv_cache, env, now, jar, pc, loc, hist, last>>

\* ------------------------------------------------------------------ text

AsciiDigits == {"0", "1", "2", "3", "4", "5", "6", "7", "8", "9"}

\* Characters outside ASCII.
NonAscii == {"sup2", "eacute"}

\* str.isdigit() is True for the ASCII digits and for superscript digits.
PyIsDigitChar(c) == c \in AsciiDigits \/ c = "sup2"

\* str.isdigit(): non-empty and every character a digit.
IsDigit(s) == Len(s) > 0 /\ \A i \in 1..Len(s) : PyIsDigitChar(s[i])

DigitChar == <<"0", "1", "2", "3", "4", "5", "6", "7", "8", "9">>

DigitVal(c) == CHOOSE d \in 0..9 : DigitChar[d + 1] = c

\* str(n) for n >= 0.
RECURSIVE Str(_)
Str(n) == IF n < 10 THEN <<DigitChar[n + 1]>> ELSE Str(n \div 10) \o <<DigitChar[(n % 10) + 1]>>

\* int(s) accepts ASCII digits here; a superscript digit raises ValueError.
IntParses(s) == Len(s) > 0 /\ \A i \in 1..Len(s) : s[i] \in AsciiDigits

RECURSIVE IntOf(_)
IntOf(s) == IF Len(s) = 0 THEN 0 ELSE IntOf(SubSeq(s, 1, Len(s) - 1)) * 10 + DigitVal(s[Len(s)])

\* s.split(sep): the segments of s between occurrences of sep.
RECURSIVE SplitFrom(_, _, _)
SplitFrom(s, sep, cur) ==
    IF Len(s) = 0 THEN <<cur>>
    ELSE IF s[1] = sep THEN <<cur>> \o SplitFrom(Tail(s), sep, <<>>)
    ELSE SplitFrom(Tail(s), sep, Append(cur, s[1]))

Split(s, sep) == SplitFrom(s, sep, <<>>)

StartsWith(s, c) == Len(s) > 0 /\ s[1] = c

\* ---------------------------------------------------------- cookie codec

MAX_AGE_SECONDS == 15552000

HexDigitCodes == <<"30", "31", "32", "33", "34", "35", "36", "37", "38", "39">>

\* The hexadecimal digits of one character's code.
HexOf(c) ==
    CASE c = "/" -> "2f"
      [] c = "|" -> "7c"
      [] c = "a" -> "61"
      [] c = "b" -> "62"
      [] c \in AsciiDigits -> HexDigitCodes[DigitVal(c) + 1]
      [] OTHER -> "3f"

\* _sign_cookie: HMAC-SHA256 of "slug|timestamp" under the secret, as hex text.
\* The digest is idealised as collision-free: it is the secret's tag followed by
\* the hex digits of the payload, so two digests are equal iff the secret and the
\* payload are.
SignCookie(slug, timestamp, secret) ==
    LET payload == slug \o <<"|">> \o timestamp
    IN <<secret>> \o [i \in 1..Len(payload) |-> HexOf(payload[i])]

\* _build_cookie: the cookie value slug|timestamp|signature, stamped with the clock.
BuildCookie(slug, secret, t) ==
    LET timestamp == Str(t)
    IN slug \o <<"|">> \o timestamp \o <<"|">> \o SignCookie(slug, timestamp, secret)

\* hmac.compare_digest on two str: TypeError unless both are ASCII only.
CompareDigest(a, b) ==
    IF (\E i \in 1..Len(a) : a[i] \in NonAscii) \/ (\E i \in 1..Len(b) : b[i] \in NonAscii)
    THEN "TypeError"
    ELSE IF a = b THEN "True" ELSE "False"

\* _is_cookie_valid at clock t: "True", "False", or the exception it raises.
IsCookieValid(slug, secret, cookie_value, t) ==
    LET segments == Split(cookie_value, "|")
    IN IF Len(segments) # 3 THEN "False"
       ELSE IF segments[1] # slug \/ ~IsDigit(segments[2]) THEN "False"
       ELSE IF ~IntParses(segments[2]) THEN "ValueError"
       ELSE IF t - IntOf(segments[2]) > MAX_AGE_SECONDS THEN "False"
       ELSE CompareDigest(SignCookie(slug, segments[2], secret), segments[3])

\* A validation that forgets the leading "/".
ValidateSlugNonEmpty(slug) == Len(slug) > 0

\* _validate_slug: non-empty and starting with "/".
ValidateSlug(slug) == Len(slug) > 0 /\ StartsWith(slug, "/")

\* --------------------------------------------------------- record codec

\* str.strip(): leading and trailing blanks removed.
RECURSIVE LStrip(_)
LStrip(s) == IF Len(s) > 0 /\ s[1] = " " THEN LStrip(Tail(s)) ELSE s

RECURSIVE RStrip(_)
RStrip(s) == IF Len(s) > 0 /\ s[Len(s)] = " " THEN RStrip(SubSeq(s, 1, Len(s) - 1)) ELSE s

Strip(s) == RStrip(LStrip(s))

\* value[:n]
Prefix(s, n) == IF Len(s) <= n THEN s ELSE SubSeq(s, 1, n)

\* _sanitize_text
SanitizeText(value, max_len) ==
    LET v == Strip(value) IN IF Len(v) = 0 THEN <<>> ELSE Prefix(v, max_len)

\* _sanitize_permalink: relative permalinks only.
SanitizePermalink(value) ==
    LET v == Strip(value)
    IN IF Len(v) = 0 THEN <<>>
       ELSE IF ~StartsWith(v, "/") THEN <<>>
       ELSE Prefix(v, 2048)

\* The YYYY-MM-DD shape both _sanitize_date_iso and _date_key test, on stripped text.
DateShaped(v) ==
    /\ Len(v) = 10
    /\ v[5] = "-" /\ v[8] = "-"
    /\ IsDigit(SubSeq(v, 1, 4)) /\ IsDigit(SubSeq(v, 6, 7)) /\ IsDigit(SubSeq(v, 9, 10))

\* _sanitize_date_iso
SanitizeDateIso(value) ==
    LET v == Strip(value) IN IF DateShaped(v) THEN v ELSE <<>>

\* A date key that looks at the year only.
DateKeyYearOnly(date_iso) ==
    LET v == Strip(date_iso)
    IN IF ~DateShaped(v) THEN 0 ELSE IntOf(SubSeq(v, 1, 4))

\* _date_key raises ValueError when a shaped date holds a digit int() rejects.
DateKeyRaises(date_iso) ==
    LET v == Strip(date_iso)
    IN DateShaped(v) /\ ~(IntParses(SubSeq(v, 1, 4)) /\ IntParses(SubSeq(v, 6, 7)) /\ IntParses(SubSeq(v, 9, 10)))

\* _date_key: year*10000 + month*100 + day, 0 for a date that is not shaped.
DateKey(date_iso) ==
    LET v == Strip(date_iso)
    IN IF ~DateShaped(v) THEN 0
       ELSE (IntOf(SubSeq(v, 1, 4)) * 10000) + (IntOf(SubSeq(v, 6, 7)) * 100) + IntOf(SubSeq(v, 9, 10))

\* A JSON value of a stored document: an integer, a string, a float or null/missing.
JInt(n) == [t |-> "int", i |-> n, s |-> <<>>]
JStr(x) == [t |-> "str", i |-> 0, s |-> x]
JFloat == [t |-> "float", i |-> 0, s |-> <<>>]
JNull == [t |-> "null", i |-> 0, s |-> <<>>]

\* A raw stored value: absent (kv.get gives None), a JSON object, or other text
\* (a legacy bare integer, garbage, the empty string).
Absent == [kind |-> "absent"]
RawText(x) == [kind |-> "text", text |-> x]
RawJson(c, ti, pe, da, up) ==
    [kind |-> "json", count |-> c, title |-> ti, permalink |-> pe, dateISO |-> da, updated_at |-> up]

\* int(text): blanks stripped, an optional sign, then ASCII digits.
PyIntBody(s) == IF Len(s) > 0 /\ s[1] \in {"+", "-"} THEN Tail(s) ELSE s

PyIntOk(text) == IntParses(PyIntBody(Strip(text)))

PyInt(text) ==
    LET s == Strip(text)
    IN IF StartsWith(s, "-") THEN 0 - IntOf(PyIntBody(s)) ELSE IntOf(PyIntBody(s))

\* _parse_int on text: the default on ValueError.
ParseInt(text, default) == IF PyIntOk(text) THEN PyInt(text) ELSE default

\* _default_post_record
DefaultPostRecord(count) ==
    [count |-> count, title |-> <<>>, permalink |-> <<>>, dateISO |-> <<>>, updated_at |-> 0]

\* The count of a JSON object: an int as it is, a string through _parse_int,
\* anything else (a float's text, null, a missing key) the default 0.
JsonCount(c) ==
    CASE c.t = "int" -> c.i
      [] c.t = "str" -> ParseInt(c.s, 0)
      [] OTHER -> 0

\* _parse_post_record: the record of a raw value.
ParsePostRecord(raw) ==
    IF raw.kind = "absent" THEN DefaultPostRecord(0)
    ELSE IF raw.kind = "text" THEN
        (IF Len(Strip(raw.text)) = 0 THEN DefaultPostRecord(0)
         ELSE DefaultPostRecord(ParseInt(raw.text, 0)))
    ELSE [DefaultPostRecord(JsonCount(raw.count)) EXCEPT
             !.title = IF raw.title.t = "str" THEN SanitizeText(raw.title.s, 256) ELSE <<>>,
             !.permalink = IF raw.permalink.t = "str" THEN SanitizePermalink(raw.permalink.s) ELSE <<>>,
             !.dateISO = IF raw.dateISO.t = "str" THEN SanitizeDateIso(raw.dateISO.s) ELSE <<>>,
             !.updated_at = IF raw.updated_at.t = "int" THEN raw.updated_at.i ELSE 0]

\* A decoder that never asks for the upgrade of a legacy value.
NeedsMigrationNever(raw) == FALSE

\* _parse_post_record's second result: a non-empty raw value that is no JSON object.
NeedsMigration(raw) == raw.kind = "text" /\ Len(Strip(raw.text)) > 0

\* json.dumps(record): the stored form of a record.
DumpRecord(record) ==
    RawJson(JInt(record.count), JStr(record.title), JStr(record.permalink),
            JStr(record.dateISO), JInt(record.updated_at))

\* The record _write_post_record serialises (lines 530-535): each field sanitised again.
SanitizeRecord(record) ==
    [count |-> record.count,
     title |-> SanitizeText(record.title, 256),
     permalink |-> SanitizePermalink(record.permalink),
     dateISO |-> SanitizeDateIso(record.dateISO),
     updated_at |-> record.updated_at]

\* _write_post_record's value: the record sanitised again, then serialised.
EncodeRecord(record) == DumpRecord(SanitizeRecord(record))

\* _merge_meta_into_record: sanitised non-empty values that differ are applied.
MergedRecord(record, title, permalink, date_iso, t) ==
    LET ti == SanitizeText(title, 256)
        pe == SanitizePermalink(permalink)
        da == SanitizeDateIso(date_iso)
        changed == \/ (Len(ti) > 0 /\ record.title # ti)
                   \/ (Len(pe) > 0 /\ record.permalink # pe)
                   \/ (Len(da) > 0 /\ record.dateISO # da)
    IN [record EXCEPT
           !.title = IF Len(ti) > 0 THEN ti ELSE @,
           !.permalink = IF Len(pe) > 0 THEN pe ELSE @,
           !.dateISO = IF Len(da) > 0 THEN da ELSE @,
           !.updated_at = IF changed THEN t ELSE @]

\* _merge_meta_into_record's second result.
MergeChanged(record, title, permalink, date_iso) ==
    LET ti == SanitizeText(title, 256)
        pe == SanitizePermalink(permalink)
        da == SanitizeDateIso(date_iso)
    IN \/ (Len(ti) > 0 /\ record.title # ti)
       \/ (Len(pe) > 0 /\ record.permalink # pe)
       \/ (Len(da) > 0 /\ record.dateISO # da)

\* ------------------------------------------------------------- the store

\* The slugs of the model: two plain ones, one with a trailing "/", one holding
\* the cookie's separator, the empty one and one without the leading "/".
SA == <<"/", "a">>
SB == <<"/", "b">>
SASlash == <<"/", "a", "/">>
SBar == <<"/", "a", "|", "b">>
SEmpty == <<>>
SNoSlash == <<"a">>
SC == <<"/", "c">>

\* The keys post:<slug> of the model's store, in the order list() returns them
\* (the store takes any text as a key).
KeyOrder == <<SEmpty, SA, SASlash, SB, SC, SNoSlash>>
Keys == {KeyOrder[i] : i \in 1..Len(KeyOrder)}

\* The store operations a request makes, each of which may fail; a request runs
\* under the set F of the operations that fail during it.
StoreOps ==
    {"secret_get", "secret_put", "post_get", "migrate_put", "post_put", "index_get",
     "index_put", "origin_get", "origin_put", "cache_get", "cache_put", "list", "fetch"}

\* The name of a written key.
PostKey(slug) == [k |-> "post", slug |-> slug]
NamedKey(name) == [k |-> name, slug |-> <<>>]

Range(s) == {s[i] : i \in 1..Len(s)}

\* str.rstrip("/")
RECURSIVE RStripSlash(_)
RStripSlash(s) ==
    IF Len(s) > 0 /\ s[Len(s)] = "/" THEN RStripSlash(SubSeq(s, 1, Len(s) - 1)) ELSE s

\* _normalize_slug
NormalizeSlug(path) ==
    LET p == Strip(path)
        q == IF StartsWith(p, "/") THEN p ELSE <<"/">> \o p
    IN IF Len(p) = 0 THEN <<>>
       ELSE IF q # <<"/">> THEN RStripSlash(q) ELSE q

\* The loops of _load_slug_index and _store_slug_index: each entry normalised,
\* kept when valid and not seen before.
RECURSIVE CleanSlugsFrom(_, _)
CleanSlugsFrom(slugs, acc) ==
    IF Len(slugs) = 0 THEN acc
    ELSE LET s == NormalizeSlug(slugs[1])
         IN CleanSlugsFrom(Tail(slugs),
                IF ValidateSlug(s) /\ s \notin Range(acc) THEN Append(acc, s) ELSE acc)

CleanSlugs(slugs) == CleanSlugsFrom(slugs, <<>>)

\* _load_slug_index: the empty list when the read fails.
LoadSlugIndex(index, F) == IF "index_get" \in F THEN <<>> ELSE CleanSlugs(index)

POPULAR_SLUG_INDEX_MAX == 5000

\* current[-n:]
LastN(s, n) == IF Len(s) <= n THEN s ELSE SubSeq(s, Len(s) - n + 1, Len(s))

\* _add_slug_to_index with the capacity of line 480 as a parameter:
\* [index: the stored list afterwards, puts: the keys written].
AddSlugWithin(index, slug_in, F, capacity) ==
    LET slug == NormalizeSlug(slug_in)
        current == LoadSlugIndex(index, F)
        grown == LastN(Append(current, slug), capacity)
    IN IF ~ValidateSlug(slug) \/ slug \in Range(current)
       THEN [index |-> index, puts |-> {}]
       ELSE [index |-> IF "index_put" \in F THEN index ELSE CleanSlugs(grown),
             puts |-> {NamedKey("popular_slug_index")}]

\* _add_slug_to_index
AddSlugToIndex(index, slug_in, F) == AddSlugWithin(index, slug_in, F, POPULAR_SLUG_INDEX_MAX)

\* _fetch_post_record's result: the parsed record, stamped when it is migrated.
FetchedRecord(raw, t) ==
    IF NeedsMigration(raw) THEN [ParsePostRecord(raw) EXCEPT !.updated_at = t]
    ELSE ParsePostRecord(raw)

\* _fetch_post_record's write: the migrated record, unless the write fails.
StoreAfterFetch(post, slug, t, F) ==
    IF NeedsMigration(post[slug]) /\ "migrate_put" \notin F
    THEN [post EXCEPT ![slug] = DumpRecord(FetchedRecord(post[slug], t))]
    ELSE post

FetchPuts(post, slug) == IF NeedsMigration(post[slug]) THEN {PostKey(slug)} ELSE {}

\* _resolve_cookie_secret, g the secret it would generate:
\* [secret: "" when none resolves, stored: cookie_secret afterwards, puts].
ResolveCookieSecret(env_secret, stored, g, F) ==
    IF env_secret # "" THEN [secret |-> env_secret, stored |-> stored, puts |-> {}]
    ELSE IF "secret_get" \notin F /\ stored # "" THEN [secret |-> stored, stored |-> stored, puts |-> {}]
    ELSE IF "secret_put" \in F THEN [secret |-> "", stored |-> stored, puts |-> {NamedKey("cookie_secret")}]
    ELSE [secret |-> g, stored |-> g, puts |-> {NamedKey("cookie_secret")}]

\* ------------------------------------------------------------- handlers

\* What a handler returns and leaves behind.  status: "200", "400", "500", or
\* "raised" when an exception leaves the handler (error names it).
Outcome(status, error, branch, count, upvoted, set_cookie, post, index, puts) ==
    [status |-> status, error |-> error, branch |-> branch, count |-> count,
     upvoted |-> upvoted, set_cookie |-> set_cookie, post |-> post, index |-> index, puts |-> puts]

\* bool(cookie_value and _is_cookie_valid(...)): no or an empty cookie is not checked.
CookieCheck(slug, secret, cookie, t) ==
    IF Len(cookie) = 0 THEN "False" ELSE IsCookieValid(slug, secret, cookie, t)

\* A backfill that writes every changed record, whatever its count.
BackfillAlways(post, slug, meta, t, F) ==
    LET fetched == FetchedRecord(post[slug], t)
        post1 == StoreAfterFetch(post, slug, t, F)
        record == MergedRecord(fetched, meta.title, meta.permalink, meta.dateISO, t)
        write == MergeChanged(fetched, meta.title, meta.permalink, meta.dateISO)
    IN [record |-> record,
        post |-> IF write /\ "post_put" \notin F THEN [post1 EXCEPT ![slug] = EncodeRecord(record)] ELSE post1,
        puts |-> FetchPuts(post, slug) \cup (IF write THEN {PostKey(slug)} ELSE {})]

\* The metadata backfill of _handle_get and of _handle_post's already-voted branch:
\* fetch, merge, and write only a changed record with a positive count.
\* A backfill that counts the request as a vote.
BackfillCounting(post, slug, meta, t, F) ==
    LET fetched == FetchedRecord(post[slug], t)
        record == [MergedRecord(fetched, meta.title, meta.permalink, meta.dateISO, t)
                      EXCEPT !.count = @ + 1]
    IN [record |-> record,
        post |-> [post EXCEPT ![slug] = EncodeRecord(record)],
        puts |-> {PostKey(slug)}]

Backfill(post, slug, meta, t, F) ==
    LET fetched == FetchedRecord(post[slug], t)
        post1 == StoreAfterFetch(post, slug, t, F)
        record == MergedRecord(fetched, meta.title, meta.permalink, meta.dateISO, t)
        write == MergeChanged(fetched, meta.title, meta.permalink, meta.dateISO) /\ record.count > 0
    IN [record |-> record,
        post |-> IF write /\ "post_put" \notin F THEN [post1 EXCEPT ![slug] = EncodeRecord(record)] ELSE post1,
        puts |-> FetchPuts(post, slug) \cup (IF write THEN {PostKey(slug)} ELSE {})]

\* _handle_get
HandleGet(post, index, secret, slug, cookie, meta, t, F) ==
    IF ~ValidateSlug(slug)
    THEN Outcome("400", "", "NEED_SLUG", 0, FALSE, <<>>, post, index, {})
    ELSE LET valid == CookieCheck(slug, secret, cookie, t)
         IN IF valid \notin {"True", "False"}
            THEN Outcome("raised", valid, "VALIDATED", 0, FALSE, <<>>, post, index, {})
            ELSE IF "post_get" \in F
            THEN Outcome("raised", "StoreError", "VALIDATED", 0, FALSE, <<>>, post, index, {})
            ELSE LET b == Backfill(post, slug, meta, t, F)
                 IN Outcome("200", "", "INFO", b.record.count, valid = "True", <<>>, b.post, index, b.puts)

\* record["count"] = int(record.get("count", 0) or 0) + 1
Incremented(record) == [record EXCEPT !.count = @ + 1]

\* A new vote that answers with the count the store holds after its write.
NewVoteReportingStored(post, index, secret, slug, meta, t, F) ==
    LET fetched == FetchedRecord(post[slug], t)
        post1 == StoreAfterFetch(post, slug, t, F)
        record == MergedRecord(Incremented(fetched), meta.title, meta.permalink, meta.dateISO, t)
        post2 == IF "post_put" \notin F THEN [post1 EXCEPT ![slug] = EncodeRecord(record)] ELSE post1
        ix == AddSlugToIndex(index, slug, F)
    IN Outcome("200", "", "NEW_VOTE", ParsePostRecord(post2[slug]).count, TRUE,
               BuildCookie(slug, secret, t),
               post2, ix.index, FetchPuts(post, slug) \cup {PostKey(slug)} \cup ix.puts)

\* _handle_post's new-vote branch: increment, merge, write, index, cookie.
NewVote(post, index, secret, slug, meta, t, F) ==
    LET fetched == FetchedRecord(post[slug], t)
        post1 == StoreAfterFetch(post, slug, t, F)
        record == MergedRecord(Incremented(fetched), meta.title, meta.permalink, meta.dateISO, t)
        post2 == IF "post_put" \notin F THEN [post1 EXCEPT ![slug] = EncodeRecord(record)] ELSE post1
        ix == AddSlugToIndex(index, slug, F)
    IN Outcome("200", "", "NEW_VOTE", record.count, TRUE, BuildCookie(slug, secret, t),
               post2, ix.index, FetchPuts(post, slug) \cup {PostKey(slug)} \cup ix.puts)

\* The slug of a vote: the body's when it is a non-empty string, else the query's.
ExtractSlug(body_slug, query_slug) == IF Len(body_slug) > 0 THEN body_slug ELSE query_slug

\* _handle_post
HandlePost(post, index, secret, slug, cookie, meta, t, F) ==
    IF ~ValidateSlug(slug)
    THEN Outcome("400", "", "NEED_SLUG", 0, FALSE, <<>>, post, index, {})
    ELSE LET valid == CookieCheck(slug, secret, cookie, t)
         IN IF valid \notin {"True", "False"}
            THEN Outcome("raised", valid, "VALIDATED", 0, FALSE, <<>>, post, index, {})
            ELSE IF "post_get" \in F
            THEN Outcome("raised", "StoreError", "VALIDATED", 0, FALSE, <<>>, post, index, {})
            ELSE IF valid = "True"
            THEN LET b == Backfill(post, slug, meta, t, F)
                 IN Outcome("200", "", "ALREADY_VOTED", b.record.count, TRUE, <<>>, b.post, index, b.puts)
            ELSE NewVote(post, index, secret, slug, meta, t, F)

\* ------------------------------------------------------ bounds and inputs

\* The largest stored count a new vote is still taken at, and the clock steps of a run.
MaxCount == 2
MaxTicks == 1

\* The clock steps: the cookie's lifetime, and one second more.
TickSteps == {MAX_AGE_SECONDS, MAX_AGE_SECONDS + 1}

D_Jan == <<"2", "0", "2", "0", "-", "0", "1", "-", "0", "5">>
D_Feb == <<"2", "0", "2", "0", "-", "0", "2", "-", "0", "1">>
D_Sup == <<"2", "0", "2", "0", "-", "0", "1", "-", "0", "sup2">>
D_Short == <<"2", "0", "2", "0">>

Meta(title, permalink, date_iso) == [title |-> title, permalink |-> permalink, dateISO |-> date_iso]

NoMeta == Meta(<<>>, <<>>, <<>>)

\* The metadata a request supplies: none, a full set, and values the sanitisers
\* drop (a blank title, an absolute permalink, a date of the wrong shape).
MetaInputs ==
    {NoMeta,
     Meta(<<"T">>, <<"/", "p">>, D_Jan),
     Meta(<<" ">>, <<"p">>, D_Short)}

\* The slugs requests name.
RequestSlugs == {SA, SEmpty, SNoSlash}

\* A vote's slug in the body, or in the query string when the body has none.
VoteSlugInputs ==
    {<<s, SEmpty>> : s \in RequestSlugs} \cup {<<SEmpty, SA>>}

\* A cookie text nobody issued: a superscript digit as the timestamp.
ForgedCookies ==
    {SA \o <<"|", "sup2", "|", "61">>}

\* secrets.token_hex(64): a secret that differs from the stored one.
GenSecret(stored) == IF stored = "g1" THEN "g2" ELSE "g1"

NoDoc == [kind |-> "absent"]

\* ------------------------------------------------------------ observation

NoLast ==
    [op |-> "none", slug |-> <<>>, status |-> "none", error |-> "", branch |-> "none",
     count |-> 0, upvoted |-> FALSE, set_cookie |-> <<>>, puts |-> {}, clean |-> TRUE,
     genuine |-> FALSE, before |-> 0, legacy |-> -1,
     faults |-> {}]

\* The number a stored value is when it is a legacy bare non-negative integer, else -1.
LegacyNumber(raw) ==
    IF raw.kind = "text" /\ Len(raw.text) > 0 /\ (\A i \in 1..Len(raw.text) : raw.text[i] \in AsciiDigits)
    THEN IntOf(raw.text) ELSE -1

\* A cookie a browser holds for this slug, issued under this secret and not expired.
Genuine(slug, cookie, secret, t) ==
    \E c \in jar : /\ c.slug = slug /\ c.value = cookie /\ c.secret = secret
                   /\ t - c.t <= MAX_AGE_SECONDS

\* The count a read of the stored value gives.
StoredCount(raw) == ParsePostRecord(raw).count

\* ---------------------------------------------------------------- actions

\* Default.fetch for /api/upvote-info (op "info") and /api/upvote (op "vote").
Serve(op, slug, cookie, meta, F) ==
    IF ~env.kv
    THEN /\ last' = [NoLast EXCEPT !.op = op, !.slug = slug, !.status = "500", !.clean = (F = {}),
                                   !.faults = F]
         /\ UNCHANGED <<kv_post, kv_secret, kv_index, kv_origin, kv_cache, env, now, jar, pc, loc, hist>>
    ELSE \E pre \in {ResolveCookieSecret(env.secret, kv_secret, GenSecret(kv_secret), F)} :
         \E out \in {IF pre.secret = ""
                    THEN Outcome("500", "", "none", 0, FALSE, <<>>, kv_post, kv_index, {})
                    ELSE IF op = "info"
                    THEN HandleGet(kv_post, kv_index, pre.secret, slug, cookie, meta, now, F)
                    ELSE HandlePost(kv_post, kv_index, pre.secret, slug, cookie, meta, now, F)} :
         LET genuine == Genuine(slug, cookie, pre.secret, now)
             counted == /\ op = "vote" /\ ~genuine
                        /\ out.status = "200" /\ "post_put" \notin F
         IN /\ kv_secret' = pre.stored
            /\ kv_post' = out.post
            /\ kv_index' = out.index
            /\ jar' = IF Len(out.set_cookie) = 0 THEN jar
                      ELSE {c \in jar : c.slug # slug}
                           \cup {[slug |-> slug, secret |-> pre.secret, t |-> now, value |-> out.set_cookie]}
            /\ hist' = [hist EXCEPT !.votes = IF counted THEN [@ EXCEPT ![slug] = @ + 1] ELSE @]
            /\ last' = [op |-> op, slug |-> slug, status |-> out.status, error |-> out.error,
                        branch |-> out.branch, count |-> out.count, upvoted |-> out.upvoted,
                        set_cookie |-> out.set_cookie, puts |-> pre.puts \cup out.puts,
                        clean |-> (F = {}), genuine |-> genuine,
                        before |-> StoredCount(kv_post[slug]),
                        legacy |-> LegacyNumber(kv_post[slug]),
                        faults |-> F]
            /\ UNCHANGED <<kv_origin, kv_cache, env, now, pc, loc>>

\* The cookies a request may carry under the slug's cookie name: none, the one a
\* browser holds for the slug, or a forged one.
CookieInputs(slug) == {<<>>} \cup {c.value : c \in {x \in jar : x.slug = slug}} \cup ForgedCookies

\* The failures the requests of the main specification meet.
MainFaults == {{}, {"secret_put"}}

\* The model takes a vote that may count while the stored count is below MaxCount.
VoteTaken(slug, cookie) ==
    (\E c \in jar : c.slug = slug /\ c.value = cookie) \/ StoredCount(kv_post[slug]) < MaxCount

\* The requests the model sends: a request for a slug that is empty or lacks the
\* leading "/" comes bare or with metadata and a cookie, and a failure of the
\* secret's write is taken only where the request makes that write.
Sent(slug, cookie, meta, F) ==
    /\ (Len(slug) = 0 \/ slug[1] # "/")
          => \/ (meta = NoMeta /\ Len(cookie) = 0)
             \/ (meta # NoMeta /\ Len(meta.title) > 0 /\ Len(cookie) > 0)
    /\ F # {} => (env.secret = "" /\ kv_secret = "")

\* GET /api/upvote-info
InfoRequest ==
    /\ \E slug \in RequestSlugs, meta \in MetaInputs, F \in MainFaults :
          \E cookie \in CookieInputs(slug) :
             /\ Sent(slug, cookie, meta, F)
             /\ Serve("info", slug, cookie, meta, F)

\* POST /api/upvote
VoteRequest ==
    /\ \E sl \in VoteSlugInputs, meta \in MetaInputs, F \in MainFaults :
          \E cookie \in CookieInputs(ExtractSlug(sl[1], sl[2])) :
             /\ Sent(ExtractSlug(sl[1], sl[2]), cookie, meta, F)
             /\ (Len(sl[1]) = 0 /\ Len(sl[2]) > 0) => (meta = NoMeta /\ F = {})
             /\ VoteTaken(ExtractSlug(sl[1], sl[2]), cookie)
             /\ Serve("vote", ExtractSlug(sl[1], sl[2]), cookie, meta, F)

\* The clock advances between requests.
Tick ==
    /\ hist.ticks < MaxTicks
    /\ \E d \in TickSteps : now' = now + d
    /\ hist' = [hist EXCEPT !.ticks = @ + 1]
    /\ UNCHANGED <<kv_post, kv_secret, kv_index, kv_origin, kv_cache, env, jar, pc, loc, last>>

\* The raw values the store may hold for a slug before the first request: absent,
\* a legacy bare integer, a negative one, and a JSON object whose count is text.
InitRaws ==
    {Absent,
     RawText(<<"2">>),
     RawText(<<"0">>),
     RawText(<<"-", "1">>),
     RawJson(JStr(<<"1">>), JStr(<<"T">>), JNull, JStr(D_Jan), JInt(0))}

Init ==
    /\ \E r \in InitRaws : kv_post = [k \in Keys |-> IF k = SA THEN r ELSE Absent]
    /\ kv_secret = ""
    /\ kv_index = <<>>
    /\ kv_origin = ""
    /\ kv_cache = NoDoc
    /\ env \in {[kv |-> TRUE, secret |-> "", has_list |-> TRUE, max |-> <<>>],
                [kv |-> TRUE, secret |-> "e1", has_list |-> FALSE, max |-> <<>>],
                [kv |-> FALSE, secret |-> "e1", has_list |-> FALSE, max |-> <<>>]}
    /\ now = 1
    /\ jar = {}
    /\ pc = <<>>
    /\ loc = <<>>
    /\ hist = [init |-> kv_post, votes |-> [k \in Keys |-> 0], ticks |-> 0]
    /\ last = NoLast

Next == InfoRequest \/ VoteRequest \/ Tick

Spec == Init /\ [][Next]_vars

\* ------------------------------------------------- requests under failures
\* The info and vote requests of one slug when store operations fail: the read or
\* the write of the record, the write of the migrated record, the read of the
\* stored secret.

FaultSets ==
    {{}, {"post_put"}, {"post_get"}, {"migrate_put"}, {"post_put", "migrate_put"},
     {"secret_get"}}

\* A failure is taken where the request performs the operation: the read of the
\* stored secret when the environment configures none.
Met(F) == "secret_get" \in F => env.secret = ""

FaultMetas == {NoMeta, Meta(<<"T">>, <<"/", "p">>, D_Jan)}

\* The cookies a browser holds for the slug, or none.
HeldCookies(slug) == {<<>>} \cup {c.value : c \in {x \in jar : x.slug = slug}}

FaultyInfo ==
    \E meta \in FaultMetas, F \in FaultSets :
       \E cookie \in HeldCookies(SA) :
          /\ Met(F)
          /\ Serve("info", SA, cookie, meta, F)

FaultyVote ==
    \E meta \in FaultMetas, F \in FaultSets :
       \E cookie \in HeldCookies(SA) :
          /\ Met(F)
          /\ StoredCount(kv_post[SA]) < MaxCount
          /\ Serve("vote", SA, cookie, meta, F)

FaultNext == FaultyInfo \/ FaultyVote

SpecFault == Init /\ [][FaultNext]_vars

\* ------------------------------------------------------- the popular list

POPULAR_CACHE_MAX_DEFAULT == 50
POPULAR_SITEMAP_MAX_URLS == 5000

\* _clamp_int
ClampInt(value, min_value, max_value) ==
    LET low == IF max_value < value THEN max_value ELSE value
    IN IF min_value > low THEN min_value ELSE low

\* _kv_list_keys with the prefix "post:": the slugs of the keys that hold a value,
\* in key order, as one page; the empty list when the store has no list() or the
\* call fails.
KvListKeys(post, has_list, F) ==
    IF ~has_list \/ "list" \in F THEN <<>>
    ELSE SelectSeq(KeyOrder, LAMBDA k : post[k].kind # "absent")

\* The first tier's loop: each listed name normalised and kept when valid.
RECURSIVE ListedSlugs(_)
ListedSlugs(names) ==
    IF Len(names) = 0 THEN <<>>
    ELSE LET slug == NormalizeSlug(names[1])
         IN (IF ValidateSlug(slug) THEN <<slug>> ELSE <<>>) \o ListedSlugs(Tail(names))

\* _slugs_from_sitemap on the paths of the sitemap's <loc> entries.
RECURSIVE SlugsFromSitemapAcc(_, _)
SlugsFromSitemapAcc(paths, acc) ==
    IF Len(paths) = 0 \/ Len(acc) >= POPULAR_SITEMAP_MAX_URLS THEN acc
    ELSE LET slug == NormalizeSlug(paths[1])
         IN SlugsFromSitemapAcc(Tail(paths),
                IF Len(slug) = 0 \/ ~StartsWith(slug, "/") \/ slug \in Range(acc)
                THEN acc ELSE Append(acc, slug))

SlugsFromSitemap(paths) == SlugsFromSitemapAcc(paths, <<>>)

\* De-dupe while preserving order.
RECURSIVE DedupeAcc(_, _)
DedupeAcc(slugs, acc) ==
    IF Len(slugs) = 0 THEN acc
    ELSE DedupeAcc(Tail(slugs), IF slugs[1] \in Range(acc) THEN acc ELSE Append(acc, slugs[1]))

Dedupe(slugs) == DedupeAcc(slugs, <<>>)

\* A discovery that keeps the tier's name when no origin is known.
DiscoverKeepingTier(post, index, stored_origin, has_list, site_origin, sitemap, F) ==
    LET key_names == KvListKeys(post, has_list, F)
    IN IF Len(key_names) > 0 THEN [source |-> "kv_list", slugs |-> ListedSlugs(key_names)]
       ELSE [source |-> "slug_index", slugs |-> LoadSlugIndex(index, F)]

\* A discovery that reads the slug index before it enumerates the store.
DiscoverIndexFirst(post, index, stored_origin, has_list, site_origin, sitemap, F) ==
    LET key_names == KvListKeys(post, has_list, F)
        indexed == LoadSlugIndex(index, F)
        first == IF Len(indexed) > 0
                 THEN [source |-> "slug_index", slugs |-> indexed]
                 ELSE [source |-> "kv_list", slugs |-> ListedSlugs(key_names)]
        origin == IF site_origin # "" THEN site_origin
                  ELSE IF "origin_get" \in F THEN "" ELSE stored_origin
    IN IF Len(first.slugs) > 0 THEN first
       ELSE IF origin # "" THEN [source |-> "sitemap", slugs |-> SlugsFromSitemap(sitemap)]
       ELSE [source |-> "none", slugs |-> <<>>]

\* The tiers of _rebuild_popular_cache (lines 637-667): [source, slugs].
\* site_origin and stored_origin are "" when absent or blank; sitemap is the list
\* of paths the fetched sitemap names, empty when the fetch fails.
Discover(post, index, stored_origin, has_list, site_origin, sitemap, F) ==
    LET key_names == KvListKeys(post, has_list, F)
        first == IF Len(key_names) > 0
                 THEN [source |-> "kv_list", slugs |-> ListedSlugs(key_names)]
                 ELSE [source |-> "slug_index", slugs |-> LoadSlugIndex(index, F)]
        origin == IF site_origin # "" THEN site_origin
                  ELSE IF "origin_get" \in F THEN "" ELSE stored_origin
    IN IF Len(first.slugs) > 0 THEN first
       ELSE IF origin # "" THEN [source |-> "sitemap", slugs |-> SlugsFromSitemap(sitemap)]
       ELSE [source |-> "none", slugs |-> <<>>]

\* The item of a record with a positive count (lines 690-704).
ItemOf(slug, record) ==
    [slug |-> slug,
     title |-> IF Len(record.title) = 0 THEN slug ELSE record.title,
     permalink |-> IF Len(record.permalink) > 0 THEN record.permalink
                   ELSE IF slug # <<"/">> THEN slug \o <<"/">> ELSE <<"/">>,
     dateISO |-> record.dateISO,
     upvote_count |-> record.count]

\* The loop over the candidates (lines 681-704): the store after the reads (a
\* legacy value is migrated when it is read), the slugs with a positive count
\* and their items.
RECURSIVE ScanAcc(_, _, _, _)
ScanAcc(candidates, acc, t, F) ==
    IF Len(candidates) = 0 THEN acc
    ELSE LET slug == candidates[1]
             record == FetchedRecord(acc.post[slug], t)
             post1 == StoreAfterFetch(acc.post, slug, t, F)
         IN ScanAcc(Tail(candidates),
                IF record.count <= 0
                THEN [acc EXCEPT !.post = post1]
                ELSE [post |-> post1,
                      upvoted_slugs |-> Append(acc.upvoted_slugs, slug),
                      items |-> Append(acc.items, ItemOf(slug, record))],
                t, F)

Scan(post, candidates, t, F) ==
    ScanAcc(candidates, [post |-> post, upvoted_slugs |-> <<>>, items |-> <<>>], t, F)

\* The sort key of an item: (upvote_count, _date_key(dateISO)).
SortKey(it) == <<it.upvote_count, DateKey(it.dateISO)>>

\* Python's order on the key tuples.
KeyLess(a, b) == a[1] < b[1] \/ (a[1] = b[1] /\ a[2] < b[2])

\* items.sort(key=..., reverse=True): descending by key, items of equal key in
\* their original order.
RECURSIVE InsertItem(_, _)
InsertItem(sorted, it) ==
    IF Len(sorted) = 0 THEN <<it>>
    ELSE IF KeyLess(SortKey(sorted[1]), SortKey(it)) THEN <<it>> \o sorted
    ELSE <<sorted[1]>> \o InsertItem(Tail(sorted), it)

RECURSIVE SortItemsAcc(_, _)
SortItemsAcc(items, sorted) ==
    IF Len(items) = 0 THEN sorted
    ELSE SortItemsAcc(Tail(items), InsertItem(sorted, items[1]))

SortItems(items) == SortItemsAcc(items, <<>>)

\* A cache document.
Doc(generated_at, source, scanned_keys, indexed_slugs, items) ==
    [kind |-> "doc", generated_at |-> generated_at, source |-> source,
     scanned_keys |-> scanned_keys, indexed_slugs |-> indexed_slugs, items |-> items]

\* The part of _rebuild_popular_cache after the loop over the candidates (lines
\* 706-725), with the limit of line 635: the sort, the index, the document.
FinishRebuild(post, index, cache, e, found, candidates, scan, t, F) ==
    LET max_items == ClampInt(ParseInt(e.max, POPULAR_CACHE_MAX_DEFAULT), 1, 200)
        index1 == IF Len(scan.upvoted_slugs) > 0 /\ "index_put" \notin F
                  THEN CleanSlugs(scan.upvoted_slugs) ELSE index
        payload == Doc(t, found.source, Len(candidates), Len(scan.upvoted_slugs),
                       Prefix(SortItems(scan.items), max_items))
    IN IF Len(candidates) > 0 /\ "post_get" \in F
       THEN [status |-> "raised", error |-> "StoreError", payload |-> NoDoc,
             post |-> post, index |-> index, cache |-> cache]
       ELSE IF \E i \in 1..Len(scan.items) : DateKeyRaises(scan.items[i].dateISO)
       THEN [status |-> "raised", error |-> "ValueError", payload |-> NoDoc,
             post |-> scan.post, index |-> index, cache |-> cache]
       ELSE IF "cache_put" \in F
       THEN [status |-> "raised", error |-> "StoreError", payload |-> NoDoc,
             post |-> scan.post, index |-> index1, cache |-> cache]
       ELSE [status |-> "ok", error |-> "", payload |-> payload,
             post |-> scan.post, index |-> index1, cache |-> payload]

\* _rebuild_popular_cache: [status: "ok" or "raised", error, payload, and the
\* store it leaves: post, index, cache].
ScanFound(post, found, t, F) == Scan(post, Dedupe(found.slugs), t, F)

RebuildPopularCache(post, index, cache, stored_origin, e, site_origin, sitemap, t, F) ==
    LET found == Discover(post, index, stored_origin, e.has_list, site_origin, sitemap, F)
    IN FinishRebuild(post, index, cache, e, found, Dedupe(found.slugs),
                     ScanFound(post, found, t, F), t, F)

\* The records the store holds before a rebuild: none, counts 0, 1 and 2 with and
\* without dates, a legacy integer, and a date whose last digit is U+00B2.
Rec(count, date_iso) == RawJson(JInt(count), JStr(<<>>), JStr(<<>>), JStr(date_iso), JInt(0))

RankRaws ==
    {Absent, Rec(1, <<>>), Rec(1, D_Jan), Rec(1, D_Feb), Rec(2, D_Jan), Rec(0, D_Feb),
     RawText(<<"2">>), Rec(2, D_Sup)}

\* The third slug holds one of three records.
ThirdRaws == {Absent, Rec(1, D_Feb), Rec(2, D_Jan)}

RankSlugs == {SA, SB, SC}
RankIndexes == {<<>>, <<SC, SB, SASlash, SA>>}
RankOrigins == {"", "https"}
SitemapInputs == {<<>>, <<SB, SASlash, SA, SEmpty, SA>>}
RankFaults == {{}, {"cache_put"}}
RankEnvs ==
    {[kv |-> TRUE, secret |-> "k1", has_list |-> TRUE, max |-> <<>>],
     [kv |-> TRUE, secret |-> "k1", has_list |-> FALSE, max |-> <<>>],
     [kv |-> TRUE, secret |-> "k1", has_list |-> FALSE, max |-> <<"2">>]}

NoRank ==
    [op |-> "none", status |-> "none", error |-> "", payload |-> NoDoc, clean |-> TRUE,
     enumerated |-> FALSE, index_before |-> <<>>, origin |-> ""]

RankInit ==
    /\ \E f \in [RankSlugs -> RankRaws] :
          /\ f[SC] \in ThirdRaws
          /\ kv_post = [k \in Keys |-> IF k \in RankSlugs THEN f[k] ELSE Absent]
    /\ kv_secret = ""
    /\ kv_index \in RankIndexes
    /\ kv_origin \in RankOrigins
    /\ kv_cache = NoDoc
    /\ env \in RankEnvs
    /\ now = 1
    /\ jar = {}
    /\ pc = <<>>
    /\ loc = <<>>
    /\ hist = [init |-> kv_post, votes |-> [k \in Keys |-> 0], ticks |-> 0]
    /\ last = NoRank

\* rebuild(): one run of _rebuild_popular_cache.
Rebuild ==
    /\ \E site_origin \in RankOrigins, sitemap \in SitemapInputs, F \in RankFaults :
          \E r \in {RebuildPopularCache(kv_post, kv_index, kv_cache, kv_origin, env,
                                        site_origin, sitemap, now, F)} :
             /\ kv_post' = r.post
             /\ kv_index' = r.index
             /\ kv_cache' = r.cache
             /\ last' = [op |-> "rebuild", status |-> r.status, error |-> r.error,
                         payload |-> r.payload, clean |-> (F = {}),
                         enumerated |-> env.has_list,
                         index_before |-> LoadSlugIndex(kv_index, {}),
                         origin |-> IF site_origin # "" THEN site_origin ELSE kv_origin]
    /\ UNCHANGED <<kv_secret, kv_origin, env, now, jar, pc, loc, hist>>

RankNext == Rebuild

SpecRank == RankInit /\ [][RankNext]_vars

\* ------------------------------------------- the ranking read and the trigger

POPULAR_REFRESH_SECONDS == 21600

\* What json.loads makes of the value under the cache key: nothing stored, a
\* value that is not an object, an object without a list under "items", an
\* object whose "generated_at" is not an integer, and a document.
CacheText == [kind |-> "text"]
CacheNoItems(generated_at) == [kind |-> "noitems", generated_at |-> generated_at]
CacheNoStamp(source, items) == [kind |-> "nostamp", source |-> source, items |-> items]

\* isinstance(payload, dict)
IsDict(cache) == cache.kind \in {"doc", "noitems", "nostamp"}
\* isinstance(payload.get("items"), list)
HasItemList(cache) == cache.kind \in {"doc", "nostamp"}
\* isinstance(payload.get("generated_at"), int)
HasIntStamp(cache) == cache.kind \in {"doc", "noitems"}

\* should_rebuild of _handle_popular (lines 825-838).
ShouldRebuildOnRead(cache, site_origin, t) ==
    IF ~HasItemList(cache) THEN TRUE
    ELSE IF Len(cache.items) = 0
    THEN IF site_origin # "" /\ cache.source = "none" THEN TRUE
         ELSE IF ~HasIntStamp(cache) THEN TRUE
         ELSE t - cache.generated_at >= 600
    ELSE FALSE

\* should_rebuild of Default.scheduled (lines 900-926); a failed read of the cache
\* key reads as no document.
ShouldRebuildOnSchedule(cache, t, F) ==
    IF "cache_get" \in F \/ ~IsDict(cache) THEN TRUE
    ELSE IF ~HasIntStamp(cache) THEN TRUE
    ELSE IF t - cache.generated_at >= POPULAR_REFRESH_SECONDS THEN TRUE
    ELSE HasItemList(cache) /\ Len(cache.items) = 0 /\ t - cache.generated_at >= 600

\* The limit of a ranking read (lines 805-807).
LimitOf(raw_limit) == ClampInt(ParseInt(raw_limit, 5), 1, 50)

\* A response that carries the whole item list.
ResponseItemsWhole(items, limit) == items

\* items[:limit] of the response (line 849).
ResponseItems(items, limit) == Prefix(items, limit)

PopOutcome(status, error, rebuilt, items, post, index, cache, origin) ==
    [status |-> status, error |-> error, rebuilt |-> rebuilt, items |-> items,
     post |-> post, index |-> index, cache |-> cache, origin |-> origin]

\* _handle_popular.  site_origin is "" when the request's URL gives none.
HandlePopular(post, index, cache, origin, e, raw_limit, site_origin, sitemap, t, F) ==
    LET limit == LimitOf(raw_limit)
        origin1 == IF site_origin # "" /\ "origin_put" \notin F THEN site_origin ELSE origin
    IN IF "cache_get" \in F
       THEN PopOutcome("raised", "StoreError", FALSE, <<>>, post, index, cache, origin1)
       ELSE IF ShouldRebuildOnRead(cache, site_origin, t)
       THEN LET r == RebuildPopularCache(post, index, cache, origin1, e, site_origin, sitemap, t, F)
            IN IF r.status = "raised"
               THEN PopOutcome("raised", r.error, TRUE, <<>>, r.post, r.index, r.cache, origin1)
               ELSE PopOutcome("200", "", TRUE, ResponseItems(r.payload.items, limit),
                               r.post, r.index, r.cache, origin1)
       ELSE PopOutcome("200", "", FALSE, ResponseItems(cache.items, limit),
                       post, index, cache, origin1)

\* A trigger that lets the failure of its rebuild out.
ScheduledUnguarded(post, index, cache, origin, e, sitemap, t, F) ==
    IF ~e.kv \/ ~ShouldRebuildOnSchedule(cache, t, F)
    THEN PopOutcome("returned", "", FALSE, <<>>, post, index, cache, origin)
    ELSE LET stored == IF "origin_get" \in F THEN "" ELSE origin
             r == RebuildPopularCache(post, index, cache, origin, e, stored, sitemap, t, F)
         IN PopOutcome(IF r.status = "raised" THEN "raised" ELSE "returned",
                       r.error, TRUE, <<>>, r.post, r.index, r.cache, origin)

\* Default.scheduled: status is "returned", error names what the rebuild raised.
Scheduled(post, index, cache, origin, e, sitemap, t, F) ==
    IF ~e.kv \/ ~ShouldRebuildOnSchedule(cache, t, F)
    THEN PopOutcome("returned", "", FALSE, <<>>, post, index, cache, origin)
    ELSE LET stored == IF "origin_get" \in F THEN "" ELSE origin
             r == RebuildPopularCache(post, index, cache, origin, e, stored, sitemap, t, F)
         IN PopOutcome("returned", r.error, TRUE, <<>>, r.post, r.index, r.cache, origin)

\* The workers the ranking is read on: an empty store; three slugs with positive
\* counts (one a legacy value) under a maximum of 2, and under a maximum of 0
\* with no list() and no configured secret; a record whose date makes the sort
\* raise; a record of count 0 only; and a worker without the store binding.
PopStore(a, b, c) ==
    [k \in Keys |-> IF k = SA THEN a ELSE IF k = SB THEN b ELSE IF k = SC THEN c ELSE Absent]

PopWorld(post, index, origin, e) == [post |-> post, index |-> index, origin |-> origin, env |-> e]

PopEnv(kv, secret, has_list, max) == [kv |-> kv, secret |-> secret, has_list |-> has_list, max |-> max]

PopWorlds ==
    {PopWorld(PopStore(Absent, Absent, Absent), <<>>, "", PopEnv(TRUE, "e1", TRUE, <<>>)),
     PopWorld(PopStore(Rec(1, D_Jan), Rec(2, D_Feb), RawText(<<"1">>)), <<SB, SA>>, "https",
              PopEnv(TRUE, "e1", TRUE, <<"2">>)),
     PopWorld(PopStore(Rec(1, D_Jan), Rec(2, D_Feb), RawText(<<"1">>)), <<SB, SA, SC>>, "",
              PopEnv(TRUE, "", FALSE, <<"0">>)),
     PopWorld(PopStore(Rec(2, D_Sup), Absent, Absent), <<>>, "", PopEnv(TRUE, "e1", TRUE, <<>>)),
     PopWorld(PopStore(Rec(0, D_Jan), Absent, Absent), <<SA>>, "https", PopEnv(TRUE, "e1", FALSE, <<>>)),
     PopWorld(PopStore(Absent, Absent, Absent), <<>>, "", PopEnv(FALSE, "e1", TRUE, <<>>))}

\* The ages of the cached documents: around the 10 minutes and the 6 hours.
PopAges ==
    {599, 600, 601,
     POPULAR_REFRESH_SECONDS - 1, POPULAR_REFRESH_SECONDS, POPULAR_REFRESH_SECONDS + 1}

PopItem(slug, count) ==
    [slug |-> slug, title |-> slug, permalink |-> slug \o <<"/">>, dateISO |-> <<>>,
     upvote_count |-> count]

\* The values under the cache key before the first request, at time t.
PopCaches(t) ==
    {NoDoc, CacheText, CacheNoItems(t - 599),
     CacheNoStamp("kv_list", <<>>),
     CacheNoStamp("kv_list", <<PopItem(SB, 2)>>)}
    \cup {Doc(t - a, "none", 0, 0, <<>>) : a \in PopAges}
    \cup {Doc(t - a, "kv_list", 1, 0, <<>>) : a \in {599, 600, 601}}
    \cup {Doc(t - a, "kv_list", 3, 3, <<PopItem(SB, 2), PopItem(SA, 1), PopItem(SC, 1)>>) : a \in PopAges}

\* limit in the query: absent, 2, 0, and 99.
LimitInputs == {<<>>, <<"2">>, <<"0">>, <<"9", "9">>}

\* The failures a ranking read meets.
ReadFaults ==
    {{}, {"cache_get"}, {"cache_put"}, {"post_get"}, {"origin_put"}, {"secret_put"}}

\* The operations of a trigger's run that may fail, and the patterns of failure.
TriggerOps ==
    {"cache_get", "origin_get", "list", "index_get", "post_get", "migrate_put",
     "index_put", "cache_put"}

TriggerFaults ==
    {{}, TriggerOps} \cup {{op} : op \in TriggerOps}
    \cup {{"list", "index_get"}, {"list", "index_get", "origin_get"}, {"cache_get", "cache_put"}}

NoPop ==
    [op |-> "none", status |-> "none", error |-> "", rebuilt |-> FALSE, items |-> <<>>,
     limit |-> <<>>, site_origin |-> "", faults |-> {}]

PopInit ==
    /\ \E w \in PopWorlds :
          /\ kv_post = w.post
          /\ kv_index = w.index
          /\ kv_origin = w.origin
          /\ env = w.env
    /\ kv_secret = ""
    /\ now = POPULAR_REFRESH_SECONDS + 2
    /\ kv_cache \in PopCaches(now)
    /\ jar = {}
    /\ pc = <<>>
    /\ loc = <<>>
    /\ hist = [init |-> kv_post, votes |-> [k \in Keys |-> 0], ticks |-> 0]
    /\ last = NoPop

\* The ranking reads the model sends: a sitemap is served where an origin is
\* known, the write of the secret fails where the request makes it, and a
\* failing store operation comes with the default limit.
PopSent(raw_limit, site_origin, sitemap, F) ==
    /\ Len(sitemap) > 0 => (site_origin # "" \/ kv_origin # "")
    /\ "secret_put" \in F => (env.secret = "" /\ kv_secret = "")
    /\ F # {} => raw_limit = <<>>

\* Default.fetch for GET /api/popular.
PopularRequest ==
    \E raw_limit \in LimitInputs, site_origin \in RankOrigins, sitemap \in SitemapInputs,
       F \in ReadFaults :
       /\ PopSent(raw_limit, site_origin, sitemap, F)
       /\ \E pre \in {ResolveCookieSecret(env.secret, kv_secret, GenSecret(kv_secret), F)} :
          \E out \in {IF ~env.kv \/ pre.secret = ""
                     THEN PopOutcome("500", "", FALSE, <<>>, kv_post, kv_index, kv_cache, kv_origin)
                     ELSE HandlePopular(kv_post, kv_index, kv_cache, kv_origin, env,
                                        raw_limit, site_origin, sitemap, now, F)} :
             /\ kv_secret' = IF env.kv THEN pre.stored ELSE kv_secret
             /\ kv_post' = out.post
             /\ kv_index' = out.index
             /\ kv_cache' = out.cache
             /\ kv_origin' = out.origin
             /\ last' = [op |-> "popular", status |-> out.status, error |-> out.error,
                         rebuilt |-> out.rebuilt, items |-> out.items, limit |-> raw_limit,
                         site_origin |-> site_origin, faults |-> F]
             /\ UNCHANGED <<env, now, jar, pc, loc, hist>>

\* One run of Default.scheduled.
ScheduledRun ==
    \E sitemap \in SitemapInputs, F \in TriggerFaults :
       \E out \in {Scheduled(kv_post, kv_index, kv_cache, kv_origin, env, sitemap, now, F)} :
          /\ kv_post' = out.post
          /\ kv_index' = out.index
          /\ kv_cache' = out.cache
          /\ last' = [op |-> "scheduled", status |-> out.status, error |-> out.error,
                      rebuilt |-> out.rebuilt, items |-> <<>>, limit |-> <<>>,
                      site_origin |-> "", faults |-> F]
          /\ UNCHANGED <<kv_secret, kv_origin, env, now, jar, pc, loc, hist>>

PopNext == PopularRequest \/ ScheduledRun

SpecPop == PopInit /\ [][PopNext]_vars

\* --------------------------------------------------------- the slug index
\* New votes, index additions and rebuilds on a store of three slugs, one of
\* them also written with a trailing "/".  The
\* capacity of the index is scaled from POPULAR_SLUG_INDEX_MAX to IndexCap, so
\* that a store holds more voted slugs than the index has room for.

IndexCap == 2

IndexSlugs == {SA, SB, SC, SASlash}

IndexEnvs ==
    {[kv |-> TRUE, secret |-> "k1", has_list |-> TRUE, max |-> <<>>],
     [kv |-> TRUE, secret |-> "k1", has_list |-> FALSE, max |-> <<>>]}

NoIx == [op |-> "none", slug |-> <<>>, index_before |-> <<>>, status |-> "none"]

IndexInit ==
    /\ kv_post = [k \in Keys |-> Absent]
    /\ kv_secret = ""
    /\ kv_index = <<>>
    /\ kv_origin = ""
    /\ kv_cache = NoDoc
    /\ env \in IndexEnvs
    /\ now = 1
    /\ jar = {}
    /\ pc = <<>>
    /\ loc = <<>>
    /\ hist = [init |-> kv_post, votes |-> [k \in Keys |-> 0], ticks |-> 0]
    /\ last = NoIx

\* add(slug): one call of _add_slug_to_index.
IndexAdd ==
    \E slug \in IndexSlugs :
       /\ kv_index' = AddSlugWithin(kv_index, slug, {}, IndexCap).index
       /\ last' = [op |-> "add", slug |-> NormalizeSlug(slug), index_before |-> kv_index,
                   status |-> "ok"]
       /\ UNCHANGED <<kv_post, kv_secret, kv_origin, kv_cache, env, now, jar, pc, loc, hist>>

\* A new vote (lines 784-801): the record as _handle_post's new-vote branch
\* leaves it, the index as the add leaves it.
IndexVote ==
    \E slug \in IndexSlugs :
       /\ StoredCount(kv_post[slug]) < MaxCount
       /\ kv_post' = NewVote(kv_post, kv_index, env.secret, slug, NoMeta, now, {}).post
       /\ kv_index' = AddSlugWithin(kv_index, slug, {}, IndexCap).index
       /\ last' = [op |-> "vote", slug |-> slug, index_before |-> kv_index, status |-> "ok"]
       /\ UNCHANGED <<kv_secret, kv_origin, kv_cache, env, now, jar, pc, loc, hist>>

\* rebuild(): one run of _rebuild_popular_cache.
IndexRebuild ==
    \E r \in {RebuildPopularCache(kv_post, kv_index, kv_cache, kv_origin, env, "", <<>>, now, {})} :
       /\ kv_post' = r.post
       /\ kv_index' = r.index
       /\ kv_cache' = r.cache
       /\ last' = [op |-> "rebuild", slug |-> <<>>, index_before |-> kv_index, status |-> r.status]
       /\ UNCHANGED <<kv_secret, kv_origin, env, now, jar, pc, loc, hist>>

IndexNext == IndexAdd \/ IndexVote \/ IndexRebuild

SpecIndex == IndexInit /\ [][IndexNext]_vars

\* -------------------------------------------------------- the record codec
\* encode (_write_post_record) and decode (_parse_post_record) on records whose
\* title is empty, short, blank-padded, 256 characters long, longer, and longer
\* with a blank as its 256th character.

Filled(n, blank_at) == [i \in 1..n |-> IF i = blank_at THEN " " ELSE "a"]

CodecTitles ==
    {<<>>, <<"T">>, <<" ", "T", " ">>, <<" ">>,
     Filled(256, 0), Filled(257, 0), Filled(257, 256), Filled(258, 2)}

CodecRecords ==
    [count : {0, 1}, title : CodecTitles, permalink : {<<>>, <<"/", "p">>, <<"p">>},
     dateISO : {<<>>, D_Jan, D_Short}, updated_at : {0, 5}]

NoCodec == [op |-> "none", record |-> DefaultPostRecord(0), decoded |-> DefaultPostRecord(0)]

CodecInit ==
    /\ kv_post = [k \in Keys |-> Absent]
    /\ kv_secret = ""
    /\ kv_index = <<>>
    /\ kv_origin = ""
    /\ kv_cache = NoDoc
    /\ env = [kv |-> TRUE, secret |-> "k1", has_list |-> FALSE, max |-> <<>>]
    /\ now = 1
    /\ jar = {}
    /\ pc = <<>>
    /\ loc = <<>>
    /\ hist = [init |-> kv_post, votes |-> [k \in Keys |-> 0], ticks |-> 0]
    /\ last = NoCodec

\* encode(r): _write_post_record puts the value under post:/a.
CodecEncode ==
    \E r \in CodecRecords :
       /\ kv_post' = [kv_post EXCEPT ![SA] = EncodeRecord(r)]
       /\ last' = [op |-> "encode", record |-> r, decoded |-> DefaultPostRecord(0)]
       /\ UNCHANGED <<kv_secret, kv_index, kv_origin, kv_cache, env, now, jar, pc, loc, hist>>

\* decode: _parse_post_record on the value just written.
CodecDecode ==
    /\ last.op = "encode"
    /\ last' = [last EXCEPT !.op = "decode", !.decoded = ParsePostRecord(kv_post[SA])]
    /\ UNCHANGED <<kv_post, kv_secret, kv_index, kv_origin, kv_cache, env, now, jar, pc, loc, hist>>

CodecNext == CodecEncode \/ CodecDecode

SpecCodec == CodecInit /\ [][CodecNext]_vars

\* --------------------------------------------------- the ranking over time
\* Votes are taken until the clock first advances; the clock advances by the
\* refresh interval; the trigger runs on a store with list() whose operations
\* succeed.  Each run of the trigger is a cron event of its own: last.run is
\* the parity of the number of runs, so a run is a step even when it leaves
\* the store alone.  SpecLive states that the clock goes on and that the trigger
\* fires again and again.

\* The metadata of the votes: none, and a date whose last character is U+00B2.
LiveMetas == {NoMeta, Meta(<<>>, <<>>, D_Sup)}

NoLive == [op |-> "none", status |-> "none", error |-> "", run |-> 0]

LiveInit ==
    /\ kv_post = [k \in Keys |-> Absent]
    /\ kv_secret = ""
    /\ kv_index = <<>>
    /\ kv_origin = ""
    /\ kv_cache \in {NoDoc, Doc(0, "kv_list", 0, 0, <<>>)}
    /\ env \in {[kv |-> TRUE, secret |-> "k1", has_list |-> TRUE, max |-> <<>>],
                [kv |-> TRUE, secret |-> "k1", has_list |-> TRUE, max |-> <<"1">>]}
    /\ now = 1
    /\ jar = {}
    /\ pc = <<>>
    /\ loc = <<>>
    /\ hist = [init |-> kv_post, votes |-> [k \in Keys |-> 0], ticks |-> 0]
    /\ last = NoLive

\* A new vote (lines 784-801), while votes have not stopped.
LiveVote ==
    \E slug \in {SA, SB}, meta \in LiveMetas :
       /\ hist.ticks = 0
       /\ StoredCount(kv_post[slug]) < MaxCount
       /\ \E v \in {NewVote(kv_post, kv_index, env.secret, slug, meta, now, {})} :
             /\ kv_post' = v.post
             /\ kv_index' = v.index
       /\ last' = [op |-> "vote", status |-> "200", error |-> "", run |-> last.run]
       /\ UNCHANGED <<kv_secret, kv_origin, kv_cache, env, now, jar, pc, loc, hist>>

\* One run of Default.scheduled.
LiveTrigger ==
    \E out \in {Scheduled(kv_post, kv_index, kv_cache, kv_origin, env, <<>>, now, {})} :
       /\ kv_post' = out.post
       /\ kv_index' = out.index
       /\ kv_cache' = out.cache
       /\ last' = [op |-> "scheduled", status |-> out.status, error |-> out.error,
                    run |-> 1 - last.run]
       /\ UNCHANGED <<kv_secret, kv_origin, env, now, jar, pc, loc, hist>>

\* The refresh interval passes.
LiveTick ==
    /\ hist.ticks < MaxTicks
    /\ now' = now + POPULAR_REFRESH_SECONDS
    /\ hist' = [hist EXCEPT !.ticks = @ + 1]
    /\ UNCHANGED <<kv_post, kv_secret, kv_index, kv_origin, kv_cache, env, jar, pc, loc, last>>

LiveNext == LiveVote \/ LiveTrigger \/ LiveTick

SpecLive ==
    LiveInit /\ [][LiveNext]_vars /\ WF_vars(LiveTick) /\ []<><<LiveTrigger>>_vars

\* ------------------------------------------------------- the cookie codec
\* The codec on its own: cookies are issued for a slug under a secret at the
\* clock, the clock advances, and texts are verified.  The store is not touched.

MaxCookies == 1
CookieSlugs == {SA, SBar}
CookieSecrets == {"k1", "k2"}

\* The text with its last character replaced.
Altered(text, ch) == [i \in 1..Len(text) |-> IF i = Len(text) THEN ch ELSE text[i]]

\* The texts presented to verify: every issued cookie, an issued cookie with the
\* last character of its signature altered (to an ASCII and to a non-ASCII
\* character), and texts nobody issued: empty, two parts, a timestamp that is a
\* letter, and a timestamp that is the digit character U+00B2.
CookieTexts(slug) ==
    {c.value : c \in jar}
    \cup {Altered(c.value, "00") : c \in jar}
    \cup {Altered(c.value, "eacute") : c \in jar}
    \cup {<<>>, slug \o <<"|", "1">>, slug \o <<"|", "x", "|", "61">>,
          slug \o <<"|", "sup2", "|", "61">>}

CookieInit ==
    /\ kv_post = [k \in Keys |-> Absent]
    /\ kv_secret = ""
    /\ kv_index = <<>>
    /\ kv_origin = ""
    /\ kv_cache = NoDoc
    /\ env = [kv |-> TRUE, secret |-> "k1", has_list |-> TRUE, max |-> <<>>]
    /\ now = 1
    /\ jar = {}
    /\ pc = <<>>
    /\ loc = <<>>
    /\ hist = [init |-> kv_post, votes |-> [k \in Keys |-> 0], ticks |-> 0]
    /\ last = [op |-> "none", slug |-> <<>>, secret |-> "", text |-> <<>>, result |-> "none", at |-> 0]

\* issue(slug, secret): _build_cookie at the clock.
CkIssue ==
    /\ Cardinality(jar) < MaxCookies
    /\ \E slug \in CookieSlugs, secret \in CookieSecrets :
          /\ jar' = jar \cup {[slug |-> slug, secret |-> secret, t |-> now,
                                value |-> BuildCookie(slug, secret, now)]}
          /\ last' = [op |-> "issue", slug |-> slug, secret |-> secret,
                      text |-> BuildCookie(slug, secret, now), result |-> "none", at |-> now]
    /\ UNCHANGED <<kv_post, kv_secret, kv_index, kv_origin, kv_cache, env, now, pc, loc, hist>>

\* verify(slug, secret, text): _is_cookie_valid at the clock.
CkVerify ==
    /\ \E slug \in CookieSlugs, secret \in CookieSecrets :
          \E text \in CookieTexts(slug) :
             last' = [op |-> "verify", slug |-> slug, secret |-> secret, text |-> text,
                      result |-> IsCookieValid(slug, secret, text, now), at |-> now]
    /\ UNCHANGED <<kv_post, kv_secret, kv_index, kv_origin, kv_cache, env, now, jar, pc, loc, hist>>

CookieNext == CkIssue \/ CkVerify \/ Tick

SpecCookie == CookieInit /\ [][CookieNext]_vars

\* ------------------------------------------------------ concurrent votes
\* Two vote requests for the same slug, each a run of _handle_post that gives way
\* to the other at every await on the store: the read of the record, the write
\* of a migrated record, the write of the incremented record, the read and the
\* write of the slug index.  The signing secret is configured, so Default.fetch
\* resolves it without touching the store.

Requests == {1, 2}
RaceSlug == SA
RaceSecret == "k1"
RaceMetas == {NoMeta, Meta(<<"T">>, <<"/", "p">>, D_Jan)}
RaceCookies == {<<>>} \cup ForgedCookies

NoLoc ==
    [cookie |-> <<>>, meta |-> NoMeta, record |-> DefaultPostRecord(0), current |-> <<>>,
     status |-> "none", error |-> "", upvoted |-> FALSE, count |-> 0, set_cookie |-> <<>>]

RaceInit ==
    /\ \E r \in InitRaws : kv_post = [k \in Keys |-> IF k = RaceSlug THEN r ELSE Absent]
    /\ kv_secret = ""
    /\ kv_index = <<>>
    /\ kv_origin = ""
    /\ kv_cache = NoDoc
    /\ env = [kv |-> TRUE, secret |-> RaceSecret, has_list |-> TRUE, max |-> <<>>]
    /\ now = 1
    /\ jar = {}
    /\ pc = [p \in Requests |-> "start"]
    /\ loc = [p \in Requests |-> NoLoc]
    /\ hist = [init |-> kv_post, votes |-> [k \in Keys |-> 0], ticks |-> 0]
    /\ last = NoLast

\* _handle_post up to the cookie check (lines 756-767).
RaceArrive(p) ==
    /\ pc[p] = "start"
    /\ \E cookie \in RaceCookies, meta \in RaceMetas :
          \E valid \in {CookieCheck(RaceSlug, env.secret, cookie, now)} :
             /\ pc' = [pc EXCEPT ![p] = CASE valid = "False" -> "read"
                                           [] valid = "True" -> "already"
                                           [] OTHER -> "raised"]
             /\ loc' = [loc EXCEPT ![p] = [@ EXCEPT !.cookie = cookie, !.meta = meta,
                            !.status = IF valid \in {"True", "False"} THEN @ ELSE "raised",
                            !.error = IF valid \in {"True", "False"} THEN @ ELSE valid]]
    /\ UNCHANGED <<kv_post, kv_secret, kv_index, kv_origin, kv_cache, env, now, jar, hist, last>>

\* _fetch_post_record: the read and the decoding (lines 517-518).
RaceRead(p) ==
    /\ pc[p] = "read"
    /\ loc' = [loc EXCEPT ![p].record = FetchedRecord(kv_post[RaceSlug], now)]
    /\ pc' = [pc EXCEPT ![p] = IF NeedsMigration(kv_post[RaceSlug]) THEN "migrate" ELSE "write"]
    /\ UNCHANGED <<kv_post, kv_secret, kv_index, kv_origin, kv_cache, env, now, jar, hist, last>>

\* _fetch_post_record: the write of the migrated record (lines 519-525).
RaceMigrate(p) ==
    /\ pc[p] = "migrate"
    /\ kv_post' = [kv_post EXCEPT ![RaceSlug] = DumpRecord(loc[p].record)]
    /\ pc' = [pc EXCEPT ![p] = "write"]
    /\ UNCHANGED <<kv_secret, kv_index, kv_origin, kv_cache, env, now, jar, loc, hist, last>>

\* The increment, the merge and the write of the record (lines 785-791).
RaceWrite(p) ==
    /\ pc[p] = "write"
    /\ \E record \in {MergedRecord(Incremented(loc[p].record), loc[p].meta.title,
                                   loc[p].meta.permalink, loc[p].meta.dateISO, now)} :
          /\ kv_post' = [kv_post EXCEPT ![RaceSlug] = EncodeRecord(record)]
          /\ loc' = [loc EXCEPT ![p] = [@ EXCEPT !.record = record, !.count = record.count]]
    /\ pc' = [pc EXCEPT ![p] = "index"]
    /\ UNCHANGED <<kv_secret, kv_index, kv_origin, kv_cache, env, now, jar, hist, last>>

\* _add_slug_to_index: the read of the index (lines 470-477).
RaceIndexRead(p) ==
    /\ pc[p] = "index"
    /\ \E current \in {LoadSlugIndex(kv_index, {})} :
          /\ loc' = [loc EXCEPT ![p].current = current]
          /\ pc' = [pc EXCEPT ![p] = IF NormalizeSlug(RaceSlug) \in Range(current)
                                      THEN "respond" ELSE "indexput"]
    /\ UNCHANGED <<kv_post, kv_secret, kv_index, kv_origin, kv_cache, env, now, jar, hist, last>>

\* _add_slug_to_index: the write of the grown index (lines 478-483).
RaceIndexWrite(p) ==
    /\ pc[p] = "indexput"
    /\ kv_index' = CleanSlugs(LastN(Append(loc[p].current, NormalizeSlug(RaceSlug)),
                                    POPULAR_SLUG_INDEX_MAX))
    /\ pc' = [pc EXCEPT ![p] = "respond"]
    /\ UNCHANGED <<kv_post, kv_secret, kv_origin, kv_cache, env, now, jar, loc, hist, last>>

\* The cookie and the answer (lines 796-801).
RaceRespond(p) ==
    /\ pc[p] = "respond"
    /\ loc' = [loc EXCEPT ![p] = [@ EXCEPT !.status = "200", !.upvoted = TRUE,
                   !.set_cookie = BuildCookie(RaceSlug, env.secret, now)]]
    /\ jar' = jar \cup {[slug |-> RaceSlug, secret |-> env.secret, t |-> now,
                          value |-> BuildCookie(RaceSlug, env.secret, now)]}
    /\ pc' = [pc EXCEPT ![p] = "done"]
    /\ UNCHANGED <<kv_post, kv_secret, kv_index, kv_origin, kv_cache, env, now, hist, last>>

RaceNext ==
    \E p \in Requests :
        \/ RaceArrive(p)
        \/ RaceRead(p)
        \/ RaceMigrate(p)
        \/ RaceWrite(p)
        \/ RaceIndexRead(p)
        \/ RaceIndexWrite(p)
        \/ RaceRespond(p)

SpecRace == RaceInit /\ [][RaceNext]_vars

\* Both requests have ended.
RaceOver == \A p \in Requests : pc[p] \in {"done", "raised", "already"}

\* ----------------------------------------------------------------- claims

\* A date of the form YYYY-MM-DD in ASCII digits.
IsoDate(d) ==
    /\ Len(d) = 10
    /\ d[5] = "-" /\ d[8] = "-"
    /\ \A i \in {1, 2, 3, 4, 6, 7, 9, 10} : d[i] \in AsciiDigits

\* Year, month and day of a date; an absent or malformed date is the oldest.
Calendar(d) ==
    IF IsoDate(d)
    THEN <<IntOf(SubSeq(d, 1, 4)), IntOf(SubSeq(d, 6, 7)), IntOf(SubSeq(d, 9, 10))>>
    ELSE <<0, 0, 0>>

\* d1 is the same day as d2 or a later one.
NotOlder(d1, d2) ==
    LET a == Calendar(d1)
        b == Calendar(d2)
    IN \/ a[1] > b[1]
       \/ (a[1] = b[1] /\ a[2] > b[2])
       \/ (a[1] = b[1] /\ a[2] = b[2] /\ a[3] >= b[3])

\* The items are in rank order and every one has a positive count.
Ranked(items) ==
    /\ \A i \in 1..Len(items) : items[i].upvote_count > 0
    /\ \A i \in 1..(Len(items) - 1) :
          \/ items[i].upvote_count > items[i + 1].upvote_count
          \/ /\ items[i].upvote_count = items[i + 1].upvote_count
             /\ NotOlder(items[i].dateISO, items[i + 1].dateISO)

\* A slug that is empty or does not start with "/".
BadSlug(slug) == Len(slug) = 0 \/ slug[1] # "/"

\* The stored count of every slug is its count at the start plus the new votes
\* (votes without a valid cookie, answered, whose write did not fail) taken since:
\* no other request changes a stored count.
TallyInv ==
    \A k \in Keys : StoredCount(kv_post[k]) = StoredCount(hist.init[k]) + hist.votes[k]

\* C1: every vote for a valid slug that carries no valid vote cookie raises the
\* stored count of the slug by exactly one, reports upvoted=true with the count
\* after its increment, and sets a fresh vote cookie (so n such votes in a row
\* raise the count by n).  The store is bound and none of its operations fails.
C1_VoteWithoutValidCookieCounts ==
    (last.op = "vote" /\ ~BadSlug(last.slug) /\ ~last.genuine /\ last.clean /\ env.kv)
    => /\ last.status = "200"
       /\ last.upvoted
       /\ last.count = last.before + 1
       /\ StoredCount(kv_post[last.slug]) = last.before + 1
       /\ \E c \in jar : c.slug = last.slug /\ c.value = last.set_cookie

\* C2: a vote that carries a cookie that verifies for its slug changes the stored
\* count of no slug, returns the stored count with upvoted=true and sets no
\* cookie, however many such votes follow one another and whatever metadata they
\* supply.
C2_AlreadyVotedKeepsCounts ==
    /\ (last.op = "vote" /\ last.genuine)
       => /\ last.status = "200"
          /\ last.upvoted
          /\ Len(last.set_cookie) = 0
          /\ last.count = last.before
          /\ StoredCount(kv_post[last.slug]) = last.before
    /\ TallyInv

\* C2's case: an already-voted request whose metadata was written to the record.
C2_Witness ==
    /\ last.op = "vote" /\ last.genuine /\ last.status = "200"
    /\ PostKey(last.slug) \in last.puts
    /\ last.before >= 1

\* C3 as stated: a vote or info request for a bad slug ends in 400 and the whole
\* request performs no write to the store, also when no signing secret is
\* configured or stored yet.
C3_BadSlugNoWrite ==
    (last.op \in {"info", "vote"} /\ BadSlug(last.slug) /\ env.kv /\ last.clean)
    => (last.status = "400" /\ last.puts = {})

\* C3 as amended: a vote or info request for a bad slug writes no key of the
\* store other than cookie_secret, and none at all when a secret is configured;
\* it ends in 400 when the store is bound and no store operation fails, and in
\* 400 or 500 otherwise; the record under the bad slug stays as it was.
C3_BadSlugWritesOnlySecret ==
    (last.op \in {"info", "vote"} /\ BadSlug(last.slug))
    => /\ last.puts \subseteq {NamedKey("cookie_secret")}
       /\ (env.secret # "" => last.puts = {})
       /\ last.status \in {"400", "500"}
       /\ (env.kv /\ last.clean => last.status = "400")
       /\ kv_post[last.slug] = hist.init[last.slug]

\* C3's case: a vote for a bad slug answered 400 by a request that wrote the
\* generated secret.
C3_Witness ==
    /\ last.op = "vote" /\ BadSlug(last.slug) /\ last.status = "400"
    /\ last.puts = {NamedKey("cookie_secret")}

\* C4: when two vote requests without a valid cookie for the same slug run
\* concurrently, every interleaving ends with the stored count at the initial
\* count plus 1 or plus 2, and both requests answer upvoted=true with a cookie.
C4_ConcurrentVotesLoseAtMostOne ==
    RaceOver
    => /\ StoredCount(kv_post[RaceSlug]) - StoredCount(hist.init[RaceSlug]) \in {1, 2}
       /\ \A p \in Requests :
             loc[p].status = "200" /\ loc[p].upvoted /\ Len(loc[p].set_cookie) > 0

\* C5: a cookie issued for a slug under a secret at time t verifies for that slug
\* and secret at every time up to t + 180 days and at no later time.
C5_IssuedCookieVerifiesForMaxAge ==
    (last.op = "verify")
    => \A c \in jar :
          (c.value = last.text /\ c.slug = last.slug /\ c.secret = last.secret)
          => (last.result = "True" <=> last.at - c.t <= MAX_AGE_SECONDS)

\* C6: verify returns a boolean for every text and never raises, and it returns
\* true only for a text of three "|"-separated parts whose first is the slug, whose
\* second is a plain number not older than 180 days and whose third is the
\* signature of slug|timestamp under the secret.
C6_VerifyFailsClosed ==
    (last.op = "verify")
    => /\ last.result \in {"True", "False"}
       /\ (last.result = "True")
          => \E ts \in {c.t : c \in jar} :
                /\ last.at - ts <= MAX_AGE_SECONDS
                /\ last.text = last.slug \o <<"|">> \o Str(ts) \o <<"|">>
                                  \o SignCookie(last.slug, Str(ts), last.secret)

\* C7: when the stored value of a slug is a legacy bare non-negative integer n, the
\* read of an info request returns count n and writes the upgrade, the store then
\* holds the structured record with count n, and a following read gives count n
\* and needs no migration.
C7_LegacyMigrated ==
    (last.op = "info" /\ last.status = "200" /\ last.legacy >= 0)
    => /\ last.count = last.legacy
       /\ PostKey(last.slug) \in last.puts
       /\ kv_post[last.slug].kind = "json"
       /\ kv_post[last.slug].count = JInt(last.legacy)
       /\ FetchedRecord(kv_post[last.slug], now).count = last.legacy
       /\ ~NeedsMigration(kv_post[last.slug])

\* C7's case: an info request has read the legacy value "2".
C7_Witness == last.op = "info" /\ last.status = "200" /\ last.legacy = 2

\* C8: every count a handler reports as upvote_count, and the count of the record
\* it leaves in the store, is >= 0, whatever raw value the store held.
C8_CountsNonNegative ==
    last.status = "200" => (last.count >= 0 /\ StoredCount(kv_post[last.slug]) >= 0)

\* C9: in every cache document rebuild() produces, the items are ordered by
\* upvote count descending and, among items of equal count, by date descending
\* (an absent or malformed date is the oldest), and no item has a count of 0 or
\* less; the stored cache document is such a document.
C9_ItemsRanked ==
    /\ (last.op = "rebuild" /\ last.status = "ok") => Ranked(last.payload.items)
    /\ (kv_cache.kind = "doc") => Ranked(kv_cache.items)

\* C9's case: a rebuild has produced three items, the first of a greater count
\* than the others, which have equal counts and different dates.
C9_Witness ==
    /\ last.op = "rebuild" /\ last.status = "ok"
    /\ Len(last.payload.items) = 3
    /\ last.payload.items[1].upvote_count > last.payload.items[2].upvote_count
    /\ last.payload.items[2].upvote_count = last.payload.items[3].upvote_count
    /\ last.payload.items[2].dateISO # last.payload.items[3].dateISO
    /\ kv_cache = last.payload

\* C10: a rebuild() run while direct enumeration is unavailable, the slug index is
\* empty and no site origin is recorded or supplied produces and persists a cache
\* document with source "none" and no items (its store operations succeed).
C10_NoSourceGivesEmptyDocument ==
    (/\ last.op = "rebuild" /\ last.clean
     /\ ~last.enumerated /\ Len(last.index_before) = 0 /\ last.origin = "")
    => /\ last.status = "ok"
       /\ last.payload.source = "none"
       /\ Len(last.payload.items) = 0
       /\ kv_cache = last.payload

\* C10's case: such a rebuild has run on a store that holds a record with votes.
C10_Witness ==
    /\ last.op = "rebuild" /\ last.clean
    /\ ~last.enumerated /\ Len(last.index_before) = 0 /\ last.origin = ""
    /\ last.status = "ok" /\ kv_cache.kind = "doc" /\ kv_cache.source = "none"
    /\ StoredCount(kv_post[SA]) > 0

\* The stored values of the other slugs are left alone by a request for last'.slug.
OthersKept == \A k \in Keys : k # last'.slug => kv_post'[k] = kv_post[k]

\* A new vote whose write of the incremented record fails.
FailedVoteWrite ==
    /\ last'.op = "vote" /\ last'.branch = "NEW_VOTE" /\ "post_put" \in last'.faults

C15_FailedReadDegrades ==
    (/\ last.op \in {"info", "vote"}
     /\ "post_get" \in last.faults
     /\ ValidateSlug(last.slug)
     /\ last.status # "500")
    => /\ last.status = "200"
       /\ last.count = (IF last.branch = "NEW_VOTE" THEN 1 ELSE 0)

\* C16 as stated: once a value is stored under cookie_secret, no later request
\* stores a different one.
C16_SecretImmutable ==
    [][kv_secret # "" => kv_secret' = kv_secret]_vars

\* An info request, and the slug's stored value before and after it.
InfoStep == last'.op = "info" /\ last'.status = "200"

\* The metadata fields of two stored values differ.
MetaDiffers(a, b) ==
    LET x == ParsePostRecord(a)
        y == ParsePostRecord(b)
    IN x.title # y.title \/ x.permalink # y.permalink \/ x.dateISO # y.dateISO

AgeOf(cache, t) == t - cache.generated_at

\* The cached document has an item list and the list is empty.
EmptyList(cache) == HasItemList(cache) /\ Len(cache.items) = 0

\* A ranking read that came to decide whether to rebuild.
ReadStep ==
    /\ last'.op = "popular" /\ last'.status \in {"200", "raised"}
    /\ "cache_get" \notin last'.faults

\* The cases in which C11 has a ranking read rebuild; a stamp that is no integer
\* counts as an age beyond every window.
ReadRebuildsAsStated(cache, site_origin, t) ==
    \/ cache.kind = "absent"
    \/ ~HasItemList(cache)
    \/ EmptyList(cache) /\ site_origin # "" /\ cache.source = "none"
    \/ EmptyList(cache) /\ (~HasIntStamp(cache) \/ AgeOf(cache, t) > 600)

\* C11 as stated: a ranking read rebuilds exactly when there is no cached
\* document, or it lacks a valid item list, or its list is empty and the request
\* gives an origin while its source is none, or its list is empty and it is older
\* than 10 minutes; otherwise, at an age of exactly 10 minutes too, it serves the
\* cached document and writes none.
C11_ReadRebuildsIff ==
    [][ReadStep
         => /\ last'.rebuilt <=> ReadRebuildsAsStated(kv_cache, last'.site_origin, now)
            /\ ~last'.rebuilt => kv_cache' = kv_cache]_vars

\* A run of the trigger on a worker with the store bound, whose read of the
\* cached document succeeded.
TriggerStep ==
    /\ last'.op = "scheduled" /\ env.kv /\ "cache_get" \notin last'.faults

\* The cases in which C12 has the trigger rebuild.
TriggerRebuildsAsStated(cache, t) ==
    \/ ~IsDict(cache)
    \/ ~HasIntStamp(cache)
    \/ AgeOf(cache, t) > POPULAR_REFRESH_SECONDS
    \/ EmptyList(cache) /\ AgeOf(cache, t) > 600

\* C12 as stated: the trigger rebuilds exactly when there is no cached document,
\* or it is older than 6 hours, or its list is empty and it is older than 10
\* minutes; a document with a non-empty list aged 6 hours or less is left as it is.
C12_TriggerRebuildsIff ==
    [][TriggerStep
         => /\ last'.rebuilt <=> TriggerRebuildsAsStated(kv_cache, now)
            /\ (/\ kv_cache.kind = "doc" /\ Len(kv_cache.items) > 0
                /\ AgeOf(kv_cache, now) <= POPULAR_REFRESH_SECONDS)
                  => kv_cache' = kv_cache]_vars

\* C13: every run of the trigger returns normally, whatever the store holds and
\* whichever of its reads, writes and fetches fail.
C13_TriggerNeverRaises ==
    last.op = "scheduled" => last.status = "returned"

\* A run of the trigger in which every store operation failed: the rebuild raised
\* on the write of the document, and the run returned.
C13_Witness ==
    /\ last.op = "scheduled" /\ last.status = "returned"
    /\ last.faults = TriggerOps /\ last.rebuilt /\ last.error = "StoreError"

\* The configured maximum clamped to [1, 200], 50 when none is configured.
MaxItemsAsStated(e) ==
    LET v == ParseInt(e.max, 50)
    IN IF v < 1 THEN 1 ELSE IF v > 200 THEN 200 ELSE v

\* The requested limit clamped to [1, 50].
LimitAsStated(raw_limit) ==
    LET v == ParseInt(raw_limit, 5)
    IN IF v < 1 THEN 1 ELSE IF v > 50 THEN 50 ELSE v

\* C17: every cache document a request or a run of the trigger persists holds at
\* most the configured maximum of items, and every ranking response holds at most
\* the requested limit of items, from the cache or from a rebuild.
C17_BoundedLists ==
    [][/\ kv_cache' # kv_cache
            => kv_cache'.kind = "doc" /\ Len(kv_cache'.items) <= MaxItemsAsStated(env)
       /\ (last'.op = "popular" /\ last'.status = "200")
            => Len(last'.items) <= LimitAsStated(last'.limit)]_vars

\* A ranking read with limit 0 rebuilt the cache over three voted slugs under a
\* maximum of 2: the document holds two items and the response one.
C17_Witness ==
    /\ last.op = "popular" /\ last.status = "200" /\ last.rebuilt
    /\ last.limit = <<"0">> /\ env.max = <<"2">>
    /\ kv_cache.kind = "doc" /\ Len(kv_cache.items) = 2 /\ kv_cache.indexed_slugs = 3
    /\ Len(last.items) = 1

\* No slug occurs twice in the list.
NoDuplicates(slugs) ==
    \A i, j \in 1..Len(slugs) : slugs[i] = slugs[j] => i = j

\* C19 as stated, with the capacity scaled to IndexCap: the stored index never
\* holds a slug twice nor more than the capacity; an add of a slug not yet present
\* on a full index drops the oldest entry and puts the slug last, and an add of a
\* slug already present changes nothing.
C19_IndexBoundedAndUnique ==
    /\ NoDuplicates(kv_index)
    /\ Len(kv_index) <= IndexCap
    /\ last.op = "add"
         => kv_index = (IF last.slug \in Range(last.index_before) THEN last.index_before
                        ELSE IF Len(last.index_before) >= IndexCap
                        THEN Tail(last.index_before) \o <<last.slug>>
                        ELSE last.index_before \o <<last.slug>>)

\* C20 as stated: after a rebuild whose writes succeed the stored index holds as
\* many slugs as the rebuild found with a positive count, each with a positive
\* stored count, and is empty when the rebuild found none.
C20_IndexIsPositivesFound ==
    (last.op = "rebuild" /\ last.status = "ok" /\ last.clean)
    => /\ Len(kv_index) = last.payload.indexed_slugs
       /\ \A i \in 1..Len(kv_index) : StoredCount(kv_post[kv_index[i]]) > 0

\* A rebuild that returned its document.
Rebuilt == last.op = "rebuild" /\ last.status = "ok"

\* C21 as stated: the document of a rebuild has source "none" exactly when no
\* tier yielded a candidate, and then its item list is empty.
C21_SourceNoneIffNoCandidate ==
    Rebuilt
    => /\ (last.payload.source = "none") <=> (last.payload.scanned_keys = 0)
       /\ last.payload.scanned_keys = 0 => last.payload.items = <<>>

\* The slugs direct enumeration yields: those of the keys that hold a record, on
\* a store that has list().
EnumeratedSlugs ==
    IF env.has_list
    THEN {NormalizeSlug(k) : k \in {x \in Keys : kv_post[x].kind # "absent"}}
    ELSE {}

C23_RoundTripIsSanitize ==
    last.op = "decode" => last.decoded = SanitizeRecord(last.record)

\* A new vote whose write of the incremented record succeeded.
PersistedVote ==
    /\ last'.op = "vote" /\ last'.branch = "NEW_VOTE" /\ "post_put" \notin last'.faults

\* C24 as stated: after every new vote that is persisted, the stored record's
\* updated_at is the time of that vote, with or without metadata.
C24_VoteStampsRecord ==
    [][PersistedVote
         => /\ StoredCount(kv_post'[last'.slug]) = StoredCount(kv_post[last'.slug]) + 1
            /\ ParsePostRecord(kv_post'[last'.slug]).updated_at = now]_vars

\* The slugs whose stored record has a positive count.
VotedSlugs == {k \in Keys : StoredCount(kv_post[k]) > 0}

\* The smaller of two numbers.
Least(a, b) == IF a < b THEN a ELSE b

\* The persisted cache document lists the stored records with a positive count,
\* each once and with its stored count, in rank order, up to the maximum.
CacheReflectsStore ==
    /\ kv_cache.kind = "doc"
    /\ Ranked(kv_cache.items)
    /\ Len(kv_cache.items) = Least(Cardinality(VotedSlugs), MaxItemsAsStated(env))
    /\ \A i \in 1..Len(kv_cache.items) :
          /\ kv_cache.items[i].slug \in VotedSlugs
          /\ kv_cache.items[i].upvote_count = StoredCount(kv_post[kv_cache.items[i].slug])
          /\ \A j \in 1..Len(kv_cache.items) :
                kv_cache.items[i].slug = kv_cache.items[j].slug => i = j
    /\ \A k \in VotedSlugs :
          \/ \E i \in 1..Len(kv_cache.items) : kv_cache.items[i].slug = k
          \/ /\ Len(kv_cache.items) > 0
             /\ StoredCount(kv_post[k]) <= kv_cache.items[Len(kv_cache.items)].upvote_count

\* C25 as stated: once votes have stopped, with list() working, store operations
\* succeeding and the trigger firing as time advances, the persisted cache
\* document comes to list exactly the stored records with a positive count,
\* ranked and truncated to the maximum, and stays so.
C25_RankingEventuallyReflects ==
    <>[]CacheReflectsStore

\* C26: the stored count of a slug never decreases: under every interleaving of
\* the requests on the same slug, each write to post:<slug> carries a count
\* greater than or equal to the count stored just before that write.
C26_CountNeverDecreases ==
    [][\A k \in Keys :
          kv_post'[k] # kv_post[k] => StoredCount(kv_post'[k]) >= StoredCount(kv_post[k])]_vars

\* A rebuild that found its candidates by list() or in the slug index.
RebuiltFromStore ==
    /\ last'.op = "rebuild" /\ last'.status = "ok"
    /\ kv_cache'.kind = "doc" /\ kv_cache'.source \in {"kv_list", "slug_index"}

\* C27: every slug the vote endpoint accepts is found again by the ranking: the
\* rebuild that follows a new vote, finding its candidates by list() or in the
\* slug index, counts the slug and lists it with the count the vote stored.
C27_VotedSlugIsRanked ==
    [][(last.op = "vote" /\ RebuiltFromStore)
         => /\ kv_cache'.indexed_slugs >= 1
            /\ \E i \in 1..Len(kv_cache'.items) :
                  /\ kv_cache'.items[i].slug \in {last.slug, NormalizeSlug(last.slug)}
                  /\ kv_cache'.items[i].upvote_count = StoredCount(kv_post[last.slug])]_vars

====
